---- MODULE Spec2Model ----
(***************************************************************************)
(* Model of src/bot.js: the GP ledger, the loan engine, the busy-flag gate *)
(* of processCommand and the snapshot file.                                *)
(*                                                                         *)
(* JavaScript runs every handler to completion: the code between two       *)
(* awaits is one atomic step.  A command is therefore modelled as the step *)
(* that runs processCommand up to its first pending await (or to its end), *)
(* followed, when a reply promise is awaited, by the step that resumes it. *)
(***************************************************************************)
EXTENDS Integers, Sequences, FiniteSets, TLC

VARIABLES
    bankDataType,      \* what the variable bankData holds: "object", or the
                       \* "null" or "number" that loadData parsed from the file
    balances,          \* bankData.balances: own keys -> stored JS value
    transactions,      \* bankData.transactions: own keys -> list of entries
    profiles,          \* bankData.profiles: user id -> profile
    loans,             \* bankData.loans: own keys -> loan record
    loanTransactions,  \* bankData.loanTransactions: own keys -> list of entries
    disk,              \* content of DATA_FILE as last written by saveData
    lastWrite,         \* what the step just taken did to DATA_FILE through
                       \* saveData: "none" (not called), "written" or "failed"
    ready,             \* the ready handler has run loadData
    busy,              \* the gate flag
    pc,                \* per in-flight message: where processCommand stands
    reply              \* per in-flight message: the reply whose delivery
                       \* (the promise of channel.send) it is waiting for

bankData ==
    <<bankDataType, balances, transactions, profiles, loans, loanTransactions>>
vars ==
    <<bankDataType, balances, transactions, profiles, loans, loanTransactions,
      disk, lastWrite, ready, busy, pc, reply>>

---------------------------------------------------------------------------
(* Bounds of the model *)

\* total number of entries kept in the bank transaction logs
MaxBankLog == 2
\* total number of loan, repay and accrue entries kept in the loan logs
MaxLoanLog == 3
\* largest account or loan balance explored
MaxBalance == 2

---------------------------------------------------------------------------
(* JavaScript values.  Names and ids are strings, modelled as sequences of *)
(* text chunks; a stored balance is a tagged value because the code can    *)
(* store non-numbers in bankData.balances.                                 *)

Num(n) == [t |-> "number", v |-> n]
NaN == [t |-> "NaN"]
\* a string
Str(s) == [t |-> "string", s |-> s]
\* the non-numeric text "function Object() { [native code] }5" and the like
StrValue == [t |-> "text"]
\* a member inherited from Object.prototype (bankData maps are plain {})
InheritedMember == [t |-> "function"]
Undefined == [t |-> "undefined"]
Null == [t |-> "null"]
\* an object literal
ObjectArg == [t |-> "object"]

IsNum(x) == x.t = "number"

\* JS truthiness of the values above
Truthy(x) ==
    CASE x.t = "number" -> x.v # 0
      [] x.t = "NaN" -> FALSE
      [] x.t = "undefined" -> FALSE
      [] x.t = "null" -> FALSE
      [] x.t = "string" -> x.s # <<>>
      [] OTHER -> TRUE

\* The key "constructor" stands for every key a plain object inherits
\* (constructor, toString, valueOf, hasOwnProperty, ...).
Constructor == <<"constructor">>
ObjectPrototypeKeys == {Constructor}

\* obj[key] on a plain object whose own properties are the function obj
GetProp(obj, key) ==
    IF key \in DOMAIN obj THEN obj[key]
    ELSE IF key \in ObjectPrototypeKeys THEN InheritedMember
    ELSE Undefined

\* obj[key] = value
SetProp(obj, key, value) ==
    [k \in (DOMAIN obj) \cup {key} |-> IF k = key THEN value ELSE obj[k]]

EmptyObject == [k \in {} |-> Undefined]

---------------------------------------------------------------------------
(* Strings *)

ToLowerCase(c) ==
    CASE c = "V" -> "v"
      [] c = "X" -> "x"
      [] c = "Object]" -> "object]"
      [] OTHER -> c

RECURSIVE TrimStart(_)
TrimStart(s) ==
    IF s # <<>> /\ Head(s) = " " THEN TrimStart(Tail(s)) ELSE s

RECURSIVE TrimEnd(_)
TrimEnd(s) ==
    IF s # <<>> /\ s[Len(s)] = " " THEN TrimEnd(SubSeq(s, 1, Len(s) - 1)) ELSE s

Trim(s) == TrimEnd(TrimStart(s))

LowerString(s) == [i \in 1..Len(s) |-> ToLowerCase(s[i])]

\* String(x), as a sequence of chunks
JsString(x) ==
    CASE x.t = "string" -> x.s
      [] x.t = "object" -> <<"[object", " ", "Object]">>
      [] x.t = "undefined" -> <<"undefined">>
      [] x.t = "null" -> <<"null">>

\* x || ""
OrEmpty(x) == IF Truthy(x) THEN x ELSE Str(<<>>)

\* String(a || "").trim().toLowerCase() === String(b || "").trim().toLowerCase()
eqName(a, b) ==
    LowerString(Trim(JsString(OrEmpty(a)))) = LowerString(Trim(JsString(OrEmpty(b))))

---------------------------------------------------------------------------
(* Amount arguments.  Number(str) is tabulated in halves so that the floor *)
(* of a non-integer is computed; a non-numeric token gives NaN.            *)

AmountArgs == {"abc", "-1", "0", "0.5", "1", "1.5", "2"}

NumberHalves(str) ==
    CASE str = "-1" -> -2
      [] str = "0" -> 0
      [] str = "0.5" -> 1
      [] str = "1" -> 2
      [] str = "1.5" -> 3
      [] str = "2" -> 4

IsFiniteNumber(str) == str \in {"-1", "0", "0.5", "1", "1.5", "2"}

parseAmount(str) ==
    IF str = "" THEN Null
    ELSE IF ~IsFiniteNumber(str) \/ NumberHalves(str) <= 0 THEN Null
    ELSE Num(NumberHalves(str) \div 2)

---------------------------------------------------------------------------
(* Account ledger *)

Zero == Num(0)

\* bankData.balances[accountName] || 0
getBalance(bals, accountName) ==
    IF Truthy(GetProp(bals, accountName)) THEN GetProp(bals, accountName) ELSE Zero

setBalance(bals, accountName, amount) == SetProp(bals, accountName, amount)

\* a + b and a - b of JavaScript, b a number
JsAdd(a, b) == IF IsNum(a) THEN Num(a.v + b.v) ELSE StrValue
JsSub(a, b) == IF IsNum(a) THEN Num(a.v - b.v) ELSE NaN
\* a > b of JavaScript: false when an operand is not a number
JsGreaterOffByOne(a, b) == IsNum(a) /\ IsNum(b) /\ a.v > b.v + 1
JsGreater(a, b) == IsNum(a) /\ IsNum(b) /\ a.v > b.v

Entry(type, amount, note) == [type |-> type, amount |-> amount, note |-> note]

\* list.unshift(entry)
Unshift(list, entry) == <<entry>> \o list

\* list.push(entry) on the value found under a key: only an array has push
Push(list, entry) == Append(list, entry)

\* recordTransaction: the new bankData.transactions, or a TypeError when the
\* key resolves to an inherited member (truthy, but without push)
recordTransactionThrows(txs, accountName) ==
    accountName \notin DOMAIN txs /\ Truthy(GetProp(txs, accountName))

recordTransaction(txs, accountName, type, amount, note) ==
    LET list == IF accountName \in DOMAIN txs THEN txs[accountName] ELSE <<>>
    IN  SetProp(txs, accountName, Push(list, Entry(type, amount.v, note)))

\* a change of the loans is mirrored in the balance of account V
ResultMirrored(bals, txs, lns, ltxs, msg, end) ==
    [balances |-> IF lns = loans THEN bals
                  ELSE setBalance(bals, <<"V">>,
                                  JsAdd(getBalance(bals, <<"V">>), Num(1))),
     transactions |-> txs, loans |-> lns,
     loanTransactions |-> ltxs, sent |-> msg, end |-> end]

\* What a command leaves behind: the four maps, the message it sent (its
\* kind; the text is presentation) and how its async function ended ("awaitReply": it returned the promise of
\* channel.send; "completed": it returned without one; "threw").
Result(bals, txs, lns, ltxs, msg, end) ==
    [balances |-> bals, transactions |-> txs, loans |-> lns,
     loanTransactions |-> ltxs, sent |-> msg, end |-> end]

Msg(kind) == [kind |-> kind]

Rejected(kind) ==
    Result(balances, transactions, loans, loanTransactions, Msg(kind), "awaitReply")

depositCommand(argsOk, accountName, amountArg) ==
    LET amount == parseAmount(amountArg)
        oldBalance == getBalance(balances, accountName)
        newBalance == JsAdd(oldBalance, amount)
        bals == setBalance(balances, accountName, newBalance)
    IN  IF ~argsOk THEN Rejected("Usage")
        ELSE IF amount = Null THEN Rejected("InvalidAmount")
        ELSE IF recordTransactionThrows(transactions, accountName)
        THEN Result(bals, transactions, loans, loanTransactions,
                    Msg("None"), "threw")
        ELSE Result(bals,
                    recordTransaction(transactions, accountName, "deposit", amount, ""),
                    loans, loanTransactions,
                    Msg("Deposited"),
                    "completed")

withdrawCommand(argsOk, accountName, amountArg) ==
    LET amount == parseAmount(amountArg)
        oldBalance == getBalance(balances, accountName)
        newBalance == JsSub(oldBalance, amount)
        bals == setBalance(balances, accountName, newBalance)
    IN  IF ~argsOk THEN Rejected("Usage")
        ELSE IF amount = Null THEN Rejected("InvalidAmount")
        ELSE IF JsGreater(amount, oldBalance)
        THEN Result(balances, transactions, loans, loanTransactions,
                    [kind |-> "Insufficient", account |-> accountName,
                     amount |-> amount, oldBalance |-> oldBalance],
                    "awaitReply")
        ELSE IF recordTransactionThrows(transactions, accountName)
        THEN Result(bals, transactions, loans, loanTransactions,
                    Msg("None"), "threw")
        ELSE Result(bals,
                    recordTransaction(transactions, accountName, "withdraw", amount, ""),
                    loans, loanTransactions,
                    Msg("Withdrew"),
                    "completed")

---------------------------------------------------------------------------
(* Loan engine *)

\* Date.now() is the wall clock: nothing makes two readings differ.
Times == {"t1", "t2"}
\* Math.random().toString(36).slice(2, 8)
RandomSuffixes == {"a"}

\* id.substring(0, 64), lengths counted in chunks
Substring64(s) == SubSeq(s, 1, IF Len(s) < 64 THEN Len(s) ELSE 64)

normalizeLoanId(id) ==
    IF ~Truthy(id) THEN Null
    ELSE IF Trim(JsString(id)) = <<>> THEN Null
    ELSE Str(Substring64(Trim(JsString(id))))

\* `loan_${Date.now().toString(36)}_${random suffix}`, normalised; nothing
\* is looked up in bankData.loans
generateLoanId(now, random) ==
    IF normalizeLoanId(Str(<<"loan_", now, "_", random>>)) = Null
    THEN Str(<<"loan_", now>>)
    ELSE normalizeLoanId(Str(<<"loan_", now, "_", random>>))

GeneratedIds == {generateLoanId(t, r).s : t \in Times, r \in RandomSuffixes}

\* bankData.loans[loanId] || null; a property key is the string of the value
getLoan(loanId) ==
    IF Truthy(GetProp(loans, JsString(loanId)))
    THEN GetProp(loans, JsString(loanId)) ELSE Null

\* a list (own property) is truthy even when empty
HasList(ltxs, key) ==
    key \in DOMAIN ltxs \/ Truthy(GetProp(ltxs, key))

isLoanId(str) ==
    /\ normalizeLoanId(str) # Null
    /\ \/ Truthy(GetProp(loans, normalizeLoanId(str).s))
       \/ HasList(loanTransactions, normalizeLoanId(str).s)

Loan(borrowerName, lenderName, balance, status, note) ==
    [t |-> "loan", borrowerName |-> borrowerName, lenderName |-> lenderName,
     balance |-> balance, status |-> status, note |-> note]

\* loan.loanId: the records stored by loanCommand have no such property
LoanIdOf(loan) == IF "loanId" \in DOMAIN loan THEN loan.loanId ELSE Undefined

\* the entry is put in front of the list instead of behind it
recordLoanTransactionInFront(ltxs, loanId, type, amount, note) ==
    LET list == IF loanId \in DOMAIN ltxs THEN ltxs[loanId] ELSE <<>>
    IN  SetProp(ltxs, loanId, <<Entry(type, amount, note)>> \o list)

\* ensureLoanTxList(loanId).push(...)
recordLoanTransaction(ltxs, loanId, type, amount, note) ==
    LET list == IF loanId \in DOMAIN ltxs THEN ltxs[loanId] ELSE <<>>
    IN  SetProp(ltxs, loanId, Push(list, Entry(type, amount, note)))

\* The keys of the entries findOpenLoans keeps; it returns their records.
findOpenLoans(borrowerName, lenderName) ==
    {k \in DOMAIN loans :
        /\ loans[k].status # "resolved"
        /\ eqName(Str(loans[k].borrowerName), borrowerName)
        /\ eqName(Str(loans[k].lenderName), lenderName)}

OrUnknown(name) == IF name = <<>> THEN <<"Unknown">> ELSE name

loanCommand(argsOk, borrowerName, amountArg, lenderArg, now, random) ==
    LET amount == parseAmount(amountArg)
        lenderName == Trim(lenderArg)
        loanId == generateLoanId(now, random).s
        lns == SetProp(loans, loanId,
                       Loan(OrUnknown(borrowerName), OrUnknown(lenderName),
                            amount.v, "open", ""))
        ltxs == recordLoanTransaction(loanTransactions, loanId, "loan",
                                      amount.v, "Loan created")
    IN  IF ~argsOk THEN Rejected("Usage")
        ELSE IF amount = Null THEN Rejected("InvalidAmount")
        ELSE IF lenderName = <<>> THEN Rejected("LenderEmpty")
        ELSE Result(balances, transactions, lns, ltxs,
                    Msg("LoanCreated"),
                    "awaitReply")

\* "Get loan ID" of repayCommand and accrueCommand (the same text in both):
\* either the loan id the command goes on with, or the rejection it sends.
\* findOpenLoans is called with ONE argument, an object literal
\* {borrowerName, lenderName}; its second parameter is undefined.
resolveLoanTarget(borrowerName, targetArg) ==
    LET lenderName == Trim(JsString(OrEmpty(Str(targetArg))))
        matches == findOpenLoans(ObjectArg, Undefined)
    IN  IF isLoanId(Str(targetArg))
        THEN [ok |-> TRUE, loanId |-> normalizeLoanId(Str(targetArg))]
        ELSE IF lenderName = <<>>
        THEN [ok |-> FALSE, msg |-> Msg("LenderEmpty")]
        ELSE IF matches = {}
        THEN [ok |-> FALSE,
              msg |-> Msg("NoLoanFound")]
        ELSE IF Cardinality(matches) > 1
        THEN [ok |-> FALSE,
              msg |-> [kind |-> "Ambiguous",
                       loanIds |-> {LoanIdOf(loans[k]) : k \in matches}]]
        ELSE [ok |-> TRUE,
              loanId |-> LoanIdOf(loans[CHOOSE k \in matches : TRUE])]

validateLoanNoResolvedCheck(loanId, borrowerName) ==
    LET loan == getLoan(loanId)
    IN  IF loan = Null THEN Msg("LoanNotFound")
        ELSE IF loan.t # "loan" THEN Msg("BorrowerMismatch")
        ELSE IF ~eqName(Str(loan.borrowerName), Str(borrowerName))
        THEN Msg("BorrowerMismatch")
        ELSE Msg("None")

\* "Validation" of repayCommand and accrueCommand: the rejection sent for
\* the loan found under loanId, or "None"
validateLoan(loanId, borrowerName) ==
    LET loan == getLoan(loanId)
    IN  IF loan = Null THEN Msg("LoanNotFound")
        ELSE IF loan.t # "loan"
        THEN \* an inherited member: no status, no borrowerName
             IF eqName(Undefined, Str(borrowerName)) THEN Msg("None")
             ELSE Msg("BorrowerMismatch")
        ELSE IF loan.status = "resolved"
        THEN Msg("AlreadyResolved")
        ELSE IF ~eqName(Str(loan.borrowerName), Str(borrowerName))
        THEN Msg("BorrowerMismatch")
        ELSE Msg("None")

MaxNoClamp(a, b) == b
\* Math.max(0, oldBal - amount)
Max(a, b) == IF a > b THEN a ELSE b

RejectedWith(msg) ==
    Result(balances, transactions, loans, loanTransactions, msg, "awaitReply")

repayCommand(argsOk, borrowerName, amountArg, targetArg) ==
    LET amount == parseAmount(amountArg)
        target == resolveLoanTarget(borrowerName, targetArg)
        loanId == JsString(target.loanId)
        loan == getLoan(target.loanId)
        oldBal == loan.balance
        newBal == Max(0, oldBal - amount.v)
        repaid == recordLoanTransaction(loanTransactions, loanId, "repay",
                                        amount.v, "")
    IN  IF ~argsOk THEN Rejected("Usage")
        ELSE IF amount = Null THEN Rejected("InvalidAmount")
        ELSE IF ~target.ok THEN RejectedWith(target.msg)
        ELSE IF validateLoan(target.loanId, borrowerName) # Msg("None")
        THEN RejectedWith(validateLoan(target.loanId, borrowerName))
        ELSE Result(balances, transactions,
                    SetProp(loans, loanId,
                            [loan EXCEPT !.balance = newBal,
                                         !.status = IF newBal = 0 THEN "resolved"
                                                    ELSE @]),
                    IF newBal = 0
                    THEN recordLoanTransaction(repaid, loanId, "resolve", 0,
                                               "Loan resolved")
                    ELSE repaid,
                    [kind |-> "Repaid", resolved |-> (newBal = 0)],
                    "awaitReply")

accrueCommand(argsOk, borrowerName, amountArg, targetArg) ==
    LET amount == parseAmount(amountArg)
        target == resolveLoanTarget(borrowerName, targetArg)
        loanId == JsString(target.loanId)
        loan == getLoan(target.loanId)
        oldBal == loan.balance
        newBal == oldBal + amount.v
    IN  IF ~argsOk THEN Rejected("Usage")
        ELSE IF amount = Null THEN Rejected("InvalidAmount")
        ELSE IF ~target.ok THEN RejectedWith(target.msg)
        ELSE IF validateLoan(target.loanId, borrowerName) # Msg("None")
        THEN RejectedWith(validateLoan(target.loanId, borrowerName))
        ELSE Result(balances, transactions,
                    SetProp(loans, loanId, [loan EXCEPT !.balance = newBal]),
                    recordLoanTransaction(loanTransactions, loanId, "accrue",
                                          amount.v, ""),
                    Msg("Accrued"),
                    "awaitReply")

---------------------------------------------------------------------------
(* Read-only views.  Object.entries lists the own keys of a container in   *)
(* insertion order; a view gets that order as the sequence `keys`.         *)

\* the orders in which the own keys of obj can have been inserted
KeyOrders(obj) ==
    {o \in [1..Cardinality(DOMAIN obj) -> DOMAIN obj] :
        \A i, j \in DOMAIN o : o[i] = o[j] => i = j}

\* Number(x) || 0 for a stored value: NaN, null and non-numeric text give 0
NumberOrZero(x) == IF IsNum(x) THEN x.v ELSE 0

\* rows.sort((a, b) => key(b) - key(a)), key[i] being the key of rows[i]:
\* descending, and stable (rows with equal keys keep their order)
SortAscending(rows, key) ==
    LET rank(i) == 1 + Cardinality({j \in 1..Len(rows) :
                           key[j] < key[i] \/ (key[j] = key[i] /\ j < i)})
    IN  [p \in 1..Len(rows) |-> rows[CHOOSE i \in 1..Len(rows) : rank(i) = p]]

SortDescending(rows, key) ==
    LET rank(i) == 1 + Cardinality({j \in 1..Len(rows) :
                           key[j] > key[i] \/ (key[j] = key[i] /\ j < i)})
    IN  [p \in 1..Len(rows) |-> rows[CHOOSE i \in 1..Len(rows) : rank(i) = p]]

\* rows.slice(0, limit), limit >= 1
Slice(rows, limit) == SubSeq(rows, 1, IF Len(rows) < limit THEN Len(rows) ELSE limit)

\* getTopGpEntries: rows [name, bal]
getTopGpEntries(keys, limit) ==
    LET mapped == [i \in 1..Len(keys) |->
                      <<keys[i], NumberOrZero(balances[keys[i]])>>]
        filtered == SelectSeq(mapped, LAMBDA row : row[2] > 0)
    IN  Slice(SortDescending(filtered, [i \in 1..Len(filtered) |-> filtered[i][2]]),
              limit)

\* loan.borrowerName || "Unknown"
BorrowerKey(loan) == IF loan.borrowerName = <<>> THEN <<"Unknown">> ELSE loan.borrowerName

\* The loop of getTopDebtEntries over the loans listed in keys: the keys of
\* debtByBorrower in insertion order, and the debt summed under each key.
RECURSIVE DebtKeys(_)
DebtKeys(keys) ==
    IF keys = <<>> THEN <<>>
    ELSE LET rest == DebtKeys(SubSeq(keys, 1, Len(keys) - 1))
             loan == loans[keys[Len(keys)]]
         IN  IF loan.status = "resolved" \/ loan.balance <= 0 THEN rest
             ELSE IF \E i \in 1..Len(rest) : rest[i] = BorrowerKey(loan) THEN rest
             ELSE Append(rest, BorrowerKey(loan))

RECURSIVE DebtOf(_, _)
DebtOf(keys, borrowerName) ==
    IF keys = <<>> THEN 0
    ELSE LET loan == loans[keys[Len(keys)]]
         IN  DebtOf(SubSeq(keys, 1, Len(keys) - 1), borrowerName)
             + (IF /\ loan.status # "resolved"
                   /\ loan.balance > 0
                   /\ BorrowerKey(loan) = borrowerName
                THEN loan.balance ELSE 0)

\* getTopDebtEntries: Object.values(debtByBorrower), rows { debt } (the
\* borrower name is the key of debtByBorrower and is not in the row)
getTopDebtEntries(keys, limit) ==
    LET values == [i \in 1..Len(DebtKeys(keys)) |->
                      [debt |-> DebtOf(keys, DebtKeys(keys)[i])]]
        filtered == SelectSeq(values, LAMBDA v : v.debt > 0)
    IN  Slice(SortDescending(filtered, [i \in 1..Len(filtered) |-> filtered[i].debt]),
              limit)

\* row.name as leaderboardCommand reads it
RowName(row) == IF "name" \in DOMAIN row THEN Str(row.name) ELSE Undefined

\* count of leaderboardCommand
LeaderboardCount(countArg) ==
    IF countArg # "" /\ IsFiniteNumber(countArg) /\ NumberHalves(countArg) > 0
    THEN (IF NumberHalves(countArg) \div 2 < 10 THEN NumberHalves(countArg) \div 2
          ELSE 10)
    ELSE 10

\* the message of leaderboardCommand: the rows of both boards as printed
leaderboardMessage(countArg, balanceKeys, loanKeys) ==
    LET gpEntries == getTopGpEntries(balanceKeys, LeaderboardCount(countArg))
        debtEntries == getTopDebtEntries(loanKeys, LeaderboardCount(countArg))
    IN  IF gpEntries = <<>> /\ debtEntries = <<>> THEN Msg("NoLeaderboard")
        ELSE [kind |-> "Leaderboard",
              gp |-> gpEntries,
              debt |-> [i \in 1..Len(debtEntries) |->
                           [name |-> RowName(debtEntries[i]),
                            debt |-> debtEntries[i].debt]]]

\* loan.lenderId: no loan record has such a property
LenderIdOf(loan) == IF "lenderId" \in DOMAIN loan THEN Str(loan.lenderId) ELSE Undefined

\* openLoans of debtCommand: rows { loanId, lenderName, balance }
debtOpenLoans(keys, targetName) ==
    LET unresolved == SelectSeq(keys, LAMBDA k : loans[k].status # "resolved")
        matched == SelectSeq(unresolved,
                       LAMBDA k : eqName(Str(loans[k].borrowerName), Str(targetName)))
        rows == [i \in 1..Len(matched) |->
                    [loanId |-> matched[i],
                     lenderName |-> OrUnknown(loans[matched[i]].lenderName),
                     balance |-> loans[matched[i]].balance]]
        positive == SelectSeq(rows, LAMBDA x : x.balance > 0)
    IN  SortDescending(positive, [i \in 1..Len(positive) |-> positive[i].balance])

\* How the person of !debt and !debtors is named: by the argument, by a
\* mention, or not at all (the author).  targetUser is set for the last two.
Vias == {"argument", "mention", "author"}

\* openLoans of debtorsCommand: rows { loanId, borrowerName, balance }
debtorsOpenLoans(keys, via, userId, targetName) ==
    LET unresolved == SelectSeq(keys, LAMBDA k : loans[k].status # "resolved")
        matched == SelectSeq(unresolved,
                       LAMBDA k : IF via # "argument"
                                  THEN LenderIdOf(loans[k]) = Str(userId)
                                  ELSE eqName(Str(loans[k].lenderName), Str(targetName)))
        rows == [i \in 1..Len(matched) |->
                    [loanId |-> matched[i],
                     borrowerName |-> OrUnknown(loans[matched[i]].borrowerName),
                     balance |-> loans[matched[i]].balance]]
        positive == SelectSeq(rows, LAMBDA x : x.balance > 0)
    IN  SortDescending(positive, [i \in 1..Len(positive) |-> positive[i].balance])

---------------------------------------------------------------------------
(* Snapshot store *)

\* JSON.stringify writes NaN as null
JsonValue(x) == IF x = NaN THEN Null ELSE x

\* the top-level keys of the state document
TopLevelKeys == {"balances", "transactions", "profiles", "loans", "loanTransactions"}

\* A JSON document in DATA_FILE: the top-level keys it has and, for each of
\* them, its content (the content under an absent key is not read).
Document(keys, bals, txs, profs, lns, ltxs) ==
    [t |-> "document", keys |-> keys,
     balances |-> bals, transactions |-> txs, profiles |-> profs,
     loans |-> lns, loanTransactions |-> ltxs]

\* JSON.stringify(bankData); the commands that save here leave profiles alone
Snapshot(bals, txs, lns, ltxs) ==
    Document(TopLevelKeys, [k \in DOMAIN bals |-> JsonValue(bals[k])],
             txs, profiles, lns, ltxs)

NoFile == [t |-> "no file"]

\* a failed write that takes the previous file with it
saveDataLosesFile(written, bals, txs, lns, ltxs) ==
    /\ disk' = IF written THEN Snapshot(bals, txs, lns, ltxs) ELSE NoFile
    /\ lastWrite' = IF written THEN "written" ELSE "failed"

\* saveData: writeFileSync either replaces the file or throws, and the
\* error is caught and logged
saveData(written, bals, txs, lns, ltxs) ==
    /\ disk' = IF written THEN Snapshot(bals, txs, lns, ltxs) ELSE disk
    /\ lastWrite' = IF written THEN "written" ELSE "failed"

\* a step that does not call saveData
noSave == lastWrite' = "none"

\* DATA_FILE exists but readFileSync throws (a directory, no permission)
Unreadable == [t |-> "unreadable"]
\* DATA_FILE holds text that JSON.parse rejects
NotJson == [t |-> "not json"]

\* loadData, called once by the ready handler.  JSON.parse(raw) is assigned
\* to bankData before anything is tested: for the JSON text null the first
\* `!bankData.balances` throws a TypeError, which the catch logs; for a
\* number the five assignments to a primitive are dropped.  In both cases
\* bankData is left holding that value and has no containers (the five
\* container variables are then not part of the program's state).
loadData ==
    /\ ~ready
    /\ ready' = TRUE
    /\ IF disk.t \in {"no file", "unreadable", "not json"}
       THEN UNCHANGED bankData
       ELSE IF disk.t = "null" \/ disk.t = "number"
       THEN /\ bankDataType' = disk.t
            /\ UNCHANGED <<balances, transactions, profiles, loans,
                           loanTransactions>>
       ELSE /\ bankDataType' = "object"
            /\ balances' = IF "balances" \in disk.keys
                           THEN disk.balances ELSE EmptyObject
            /\ transactions' = IF "transactions" \in disk.keys
                               THEN disk.transactions ELSE EmptyObject
            /\ profiles' = IF "profiles" \in disk.keys
                           THEN disk.profiles ELSE EmptyObject
            /\ loans' = IF "loans" \in disk.keys
                        THEN disk.loans ELSE EmptyObject
            /\ loanTransactions' = IF "loanTransactions" \in disk.keys
                                   THEN disk.loanTransactions ELSE EmptyObject
    /\ noSave
    /\ UNCHANGED <<disk, busy, pc, reply>>

-------------------------------------------------------------------------------------------------------------------------------------------------
(* processCommand and the MessageCreate handler *)

\* messages that can be in flight at the same time
Msgs == {"m1", "m2"}

NoReply == Msg("None")

\* number of entries in all the logs of a map, "resolve" entries apart
SumLen(logs) ==
    LET Count(log) == Cardinality({i \in 1..Len(log) : log[i].type # "resolve"})
        RECURSIVE Sum(_)
        Sum(ks) == IF ks = {} THEN 0
                   ELSE LET k == CHOOSE x \in ks : TRUE
                        IN  Count(logs[k]) + Sum(ks \ {k})
    IN  Sum(DOMAIN logs)

\* the part of the state space the model explores
WithinBounds(r) ==
    /\ \A k \in DOMAIN r.balances :
          IsNum(r.balances[k]) => r.balances[k].v <= MaxBalance
    /\ \A k \in DOMAIN r.loans : r.loans[k].balance <= MaxBalance
    /\ SumLen(r.transactions) <= MaxBankLog
    /\ SumLen(r.loanTransactions) <= MaxLoanLog

\* The gated branch of processCommand for a command that left r: busy is
\* set, the command runs up to its first pending await; when nothing is
\* pending the rest (saveData, finally, and after a throw the catch of the
\* MessageCreate handler) runs in the same turn.
Gated(m, r, written) ==
    /\ ready
    /\ pc[m] = "idle"
    /\ ~busy
    /\ WithinBounds(r)
    /\ UNCHANGED <<bankDataType, profiles, ready>>
    /\ balances' = r.balances
    /\ transactions' = r.transactions
    /\ loans' = r.loans
    /\ loanTransactions' = r.loanTransactions
    /\ CASE r.end = "awaitReply" ->
              /\ busy' = TRUE
              /\ pc' = [pc EXCEPT ![m] = "gated"]
              /\ reply' = [reply EXCEPT ![m] = r.sent]
              /\ noSave
              /\ UNCHANGED disk
         [] r.end = "completed" ->
              /\ saveData(written, r.balances, r.transactions, r.loans,
                          r.loanTransactions)
              /\ busy' = FALSE
              /\ UNCHANGED <<pc, reply>>
         [] r.end = "threw" ->
              /\ busy' = FALSE
              /\ noSave
              /\ UNCHANGED <<pc, reply, disk>>

Deposit(m, argsOk, accountName, amountArg, written) ==
    Gated(m, depositCommand(argsOk, accountName, amountArg), written)

Withdraw(m, argsOk, accountName, amountArg, written) ==
    Gated(m, withdrawCommand(argsOk, accountName, amountArg), written)

LoanCmd(m, argsOk, borrowerName, amountArg, lenderArg, now, random) ==
    Gated(m, loanCommand(argsOk, borrowerName, amountArg, lenderArg, now, random),
          TRUE)

Repay(m, argsOk, borrowerName, amountArg, targetArg) ==
    Gated(m, repayCommand(argsOk, borrowerName, amountArg, targetArg), TRUE)

Accrue(m, argsOk, borrowerName, amountArg, targetArg) ==
    Gated(m, accrueCommand(argsOk, borrowerName, amountArg, targetArg), TRUE)

\* the command is not turned away: it deposits although busy is set
BusyRejectRunsAnyway(m) ==
    /\ ready
    /\ pc[m] = "idle"
    /\ busy
    /\ balances' = setBalance(balances, <<"V">>,
                              JsAdd(getBalance(balances, <<"V">>), Num(1)))
    /\ reply' = [reply EXCEPT ![m] = Msg("Deposited")]
    /\ pc' = [pc EXCEPT ![m] = "replying"]
    /\ noSave
    /\ UNCHANGED <<bankDataType, transactions, profiles, loans,
                   loanTransactions, disk, ready, busy>>

\* a deposit, withdraw, loan, repay or accrue that finds busy set
BusyReject(m) ==
    /\ ready
    /\ pc[m] = "idle"
    /\ busy
    /\ reply' = [reply EXCEPT ![m] = Msg("Busy")]
    /\ pc' = [pc EXCEPT ![m] = "replying"]
    /\ noSave
    /\ UNCHANGED <<bankData, disk, ready, busy>>

\* the awaited reply of a gated command is delivered: saveData, finally
GatedReplyDelivered(m, written) ==
    /\ pc[m] = "gated"
    /\ saveData(written, balances, transactions, loans, loanTransactions)
    /\ busy' = FALSE
    /\ pc' = [pc EXCEPT ![m] = "idle"]
    /\ reply' = [reply EXCEPT ![m] = NoReply]
    /\ UNCHANGED <<bankData, ready>>

\* the rejection leaves processCommand without running its finally block
GatedReplyFailedKeepsGate(m) ==
    /\ pc[m] = "gated"
    /\ pc' = [pc EXCEPT ![m] = "idle"]
    /\ reply' = [reply EXCEPT ![m] = NoReply]
    /\ noSave
    /\ UNCHANGED <<bankData, disk, ready, busy>>

\* the awaited reply is rejected: finally (busy = false), then the catch of
\* the MessageCreate handler (busy = false again)
GatedReplyFailed(m) ==
    /\ pc[m] = "gated"
    /\ busy' = FALSE
    /\ pc' = [pc EXCEPT ![m] = "idle"]
    /\ reply' = [reply EXCEPT ![m] = NoReply]
    /\ noSave
    /\ UNCHANGED <<bankData, disk, ready>>

\* the reply a command returned outside the gate is delivered
ReplyDelivered(m) ==
    /\ pc[m] = "replying"
    /\ pc' = [pc EXCEPT ![m] = "idle"]
    /\ reply' = [reply EXCEPT ![m] = NoReply]
    /\ noSave
    /\ UNCHANGED <<bankData, disk, ready, busy>>

\* ... or rejected: processCommand rejects and the catch of the
\* MessageCreate handler runs
ReplyFailed(m) ==
    /\ pc[m] = "replying"
    /\ busy' = FALSE
    /\ pc' = [pc EXCEPT ![m] = "idle"]
    /\ reply' = [reply EXCEPT ![m] = NoReply]
    /\ noSave
    /\ UNCHANGED <<bankData, disk, ready>>

\* !exportdb: returns the promise of its reply
exportDbCommand(m) ==
    /\ ready
    /\ pc[m] = "idle"
    /\ reply' = [reply EXCEPT ![m] = IF disk = NoFile THEN Msg("FileNotFound")
                                      ELSE Msg("Export")]
    /\ pc' = [pc EXCEPT ![m] = "replying"]
    /\ noSave
    /\ UNCHANGED <<bankData, disk, ready, busy>>

\* a read-only command: it returns the promise of the message it sends
View(m, msg) ==
    /\ ready
    /\ bankDataType = "object"
    /\ pc[m] = "idle"
    /\ reply' = [reply EXCEPT ![m] = msg]
    /\ pc' = [pc EXCEPT ![m] = "replying"]
    /\ noSave
    /\ UNCHANGED <<bankData, disk, ready, busy>>

leaderboardCommand(m, countArg, balanceKeys, loanKeys) ==
    View(m, leaderboardMessage(countArg, balanceKeys, loanKeys))

debtCommand(m, targetName, loanKeys) ==
    View(m, IF debtOpenLoans(loanKeys, targetName) = <<>> THEN Msg("NoDebt")
            ELSE [kind |-> "Debt", openLoans |-> debtOpenLoans(loanKeys, targetName)])

debtorsCommand(m, via, userId, targetName, loanKeys) ==
    View(m, IF debtorsOpenLoans(loanKeys, via, userId, targetName) = <<>>
            THEN Msg("NoDebtors")
            ELSE [kind |-> "Debtors",
                  openLoans |-> debtorsOpenLoans(loanKeys, via, userId, targetName)])

\* name.split(" ")[0]
RECURSIVE FirstWord(_)
FirstWord(s) ==
    IF s = <<>> \/ Head(s) = " " THEN <<>> ELSE <<Head(s)>> \o FirstWord(Tail(s))

\* name.substr(0, 32), lengths counted in chunks
Substr32(s) == SubSeq(s, 1, IF Len(s) < 32 THEN Len(s) ELSE 32)

\* setDefaultNameForUser: bankData.profiles[user.id].name = ...
setDefaultNameForUser(profs, userId, name) ==
    SetProp(profs, userId, [name |-> Trim(Substr32(FirstWord(name)))])

\* !setname: outside the gate.  A refused name (no argument, empty, too
\* long: argsOk is false) returns the promise of its reply; otherwise the
\* profile is set, saveData is called and the confirmation is sent without
\* being returned, all in one turn and whatever busy is.
setNameCommand(m, argsOk, userId, name, written) ==
    /\ ready
    /\ bankDataType = "object"
    /\ pc[m] = "idle"
    /\ IF ~argsOk
       THEN /\ reply' = [reply EXCEPT ![m] = Msg("Usage")]
            /\ pc' = [pc EXCEPT ![m] = "replying"]
            /\ noSave
            /\ UNCHANGED <<profiles, disk>>
       ELSE /\ profiles' = setDefaultNameForUser(profiles, userId, Trim(name))
            /\ disk' = IF written
                       THEN Document(TopLevelKeys,
                                     [k \in DOMAIN balances |-> JsonValue(balances[k])],
                                     transactions, profiles', loans, loanTransactions)
                       ELSE disk
            /\ lastWrite' = IF written THEN "written" ELSE "failed"
            /\ UNCHANGED <<pc, reply>>
    /\ UNCHANGED <<bankDataType, balances, transactions, loans, loanTransactions,
                   ready, busy>>

\* The program once the ready handler has run with no DATA_FILE: bankData
\* is the object of its declaration.
Init ==
    /\ bankDataType = "object"
    /\ balances = EmptyObject
    /\ transactions = EmptyObject
    /\ profiles = EmptyObject
    /\ loans = EmptyObject
    /\ loanTransactions = EmptyObject
    /\ disk = NoFile
    /\ lastWrite = "none"
    /\ ready = TRUE
    /\ busy = FALSE
    /\ pc = [m \in Msgs |-> "idle"]
    /\ reply = [m \in Msgs |-> NoReply]

---------------------------------------------------------------------------
(* Inputs *)

AccountNames == {<<"V">>, <<"X">>, Constructor}
\* borrowers of new loans, and borrowers named when repaying or accruing
LoanBorrowers == {<<"V">>}
BorrowerNames == {<<"V">>, <<"v">>, <<"X">>}
LenderArgs == {<<"X">>}
TargetArgs == LenderArgs \cup GeneratedIds
LoanAmountArgs == {"0", "0.5", "1", "2"}

\* The ledger: deposits and withdrawals, one message at a time.
NextLedger ==
    \/ \E argsOk \in BOOLEAN, a \in AccountNames, n \in AmountArgs :
          Deposit("m1", argsOk, a, n, TRUE)
    \/ \E argsOk \in BOOLEAN, a \in AccountNames, n \in AmountArgs :
          Withdraw("m1", argsOk, a, n, TRUE)
    \/ GatedReplyDelivered("m1", TRUE)
    \/ GatedReplyFailed("m1")

SpecLedger == Init /\ [][NextLedger]_vars

\* The loan engine: loan, repay and accrue, one message at a time.
NextLoans ==
    \/ \E argsOk \in BOOLEAN, b \in LoanBorrowers, n \in LoanAmountArgs,
          l \in LenderArgs, now \in Times, random \in RandomSuffixes :
          LoanCmd("m1", argsOk, b, n, l, now, random)
    \/ \E argsOk \in BOOLEAN, b \in BorrowerNames, n \in LoanAmountArgs,
          target \in TargetArgs :
          Repay("m1", argsOk, b, n, target)
    \/ \E argsOk \in BOOLEAN, b \in BorrowerNames, n \in LoanAmountArgs,
          target \in TargetArgs :
          Accrue("m1", argsOk, b, n, target)
    \/ GatedReplyDelivered("m1", TRUE)

SpecLoans == Init /\ [][NextLoans]_vars

\* Startup: what the ready handler finds in DATA_FILE.  A document has any
\* subset of the top-level keys, each present key with an empty or a
\* filled container.
SampleLoanId == generateLoanId("t1", "a").s

SampleContent ==
    [balances |-> (<<"V">> :> Num(1)),
     transactions |-> (<<"V">> :> <<Entry("deposit", 1, "")>>),
     profiles |-> (<<"u1">> :> [name |-> <<"V">>]),
     loans |-> (SampleLoanId :> Loan(<<"V">>, <<"X">>, 1, "open", "")),
     loanTransactions |-> (SampleLoanId :> <<Entry("loan", 1, "Loan created")>>)]

Content(filled, key) == IF key \in filled THEN SampleContent[key] ELSE EmptyObject

LoadFiles ==
    {NoFile, Unreadable, NotJson, Null, Num(1)}
    \cup {Document(keys, Content(filled, "balances"),
                   Content(filled, "transactions"), Content(filled, "profiles"),
                   Content(filled, "loans"), Content(filled, "loanTransactions")) :
            <<keys, filled>> \in {kf \in (SUBSET TopLevelKeys) \X (SUBSET TopLevelKeys) :
                                     kf[2] \subseteq kf[1]}}

InitLoad ==
    /\ bankDataType = "object"
    /\ balances = EmptyObject
    /\ transactions = EmptyObject
    /\ profiles = EmptyObject
    /\ loans = EmptyObject
    /\ loanTransactions = EmptyObject
    /\ disk \in LoadFiles
    /\ lastWrite = "none"
    /\ ready = FALSE
    /\ busy = FALSE
    /\ pc = [m \in Msgs |-> "idle"]
    /\ reply = [m \in Msgs |-> NoReply]

NextLoad == loadData

SpecLoad == InitLoad /\ [][NextLoad]_vars

\* The views: the bot starts on a complete document and answers
\* !leaderboard, !debt and !debtors.
ViewAccounts == {<<"V">>, <<"X">>, <<"Z">>}

BalanceMaps ==
    UNION {[names -> {Num(n) : n \in 0..MaxBalance}] : names \in SUBSET ViewAccounts}

ViewLoanIds == GeneratedIds \cup {generateLoanId("t3", "a").s}

ViewLoans ==
    {Loan(<<"V">>, <<"X">>, 1, "open", ""), Loan(<<"V">>, <<"X">>, 2, "open", ""),
     Loan(<<"v">>, <<"x">>, 1, "open", ""), Loan(<<"X">>, <<"V">>, 2, "open", ""),
     Loan(<<"V">>, <<"X">>, 0, "resolved", ""), Loan(<<"X">>, <<"V">>, 0, "open", "")}

LoanMaps == UNION {[ids -> ViewLoans] : ids \in SUBSET ViewLoanIds}

ViewFiles ==
    {Document(TopLevelKeys, bals, EmptyObject, EmptyObject, EmptyObject, EmptyObject) :
        bals \in BalanceMaps}
    \cup {Document(TopLevelKeys, SampleContent.balances, EmptyObject, EmptyObject,
                   lns, EmptyObject) : lns \in LoanMaps}

ViewNames == {<<"V">>, <<"x">>}

InitViews ==
    /\ bankDataType = "object"
    /\ balances = EmptyObject
    /\ transactions = EmptyObject
    /\ profiles = EmptyObject
    /\ loans = EmptyObject
    /\ loanTransactions = EmptyObject
    /\ disk \in ViewFiles
    /\ lastWrite = "none"
    /\ ready = FALSE
    /\ busy = FALSE
    /\ pc = [m \in Msgs |-> "idle"]
    /\ reply = [m \in Msgs |-> NoReply]

NextViews ==
    \/ loadData
    \/ \E countArg \in {"", "1", "2"}, balanceKeys \in KeyOrders(balances),
          loanKeys \in KeyOrders(loans) :
          leaderboardCommand("m1", countArg, balanceKeys, loanKeys)
    \/ \E targetName \in ViewNames, loanKeys \in KeyOrders(loans) :
          debtCommand("m1", targetName, loanKeys)
    \/ \E via \in Vias, targetName \in ViewNames, loanKeys \in KeyOrders(loans) :
          debtorsCommand("m1", via, <<"u1">>, targetName, loanKeys)
    \/ ReplyDelivered("m1")

SpecViews == InitViews /\ [][NextViews]_vars

\* Names and loans: !setname arrives while loan commands are in flight.
NextNames ==
    \E m \in Msgs :
        \/ \E argsOk \in BOOLEAN, name \in {<<"V">>, <<"X", " ", "Y">>},
              written \in BOOLEAN :
              setNameCommand(m, argsOk, <<"u1">>, name, written)
        \/ \E argsOk \in BOOLEAN :
              LoanCmd(m, argsOk, <<"V">>, "1", <<"X">>, "t1", "a")
        \/ \E target \in GeneratedIds : Repay(m, TRUE, <<"V">>, "1", target)
        \/ BusyReject(m)
        \/ \E written \in BOOLEAN : GatedReplyDelivered(m, written)
        \/ ReplyDelivered(m)

SpecNames == Init /\ [][NextNames]_vars

\* The whole program: messages arrive while others are in flight, replies
\* are delivered or fail, and the file write succeeds or fails.
Next ==
    \E m \in Msgs :
        \/ \E argsOk \in BOOLEAN, written \in BOOLEAN :
              Deposit(m, argsOk, <<"V">>, "1", written)
        \/ \E argsOk \in BOOLEAN, n \in {"1", "2"}, written \in BOOLEAN :
              Withdraw(m, argsOk, <<"V">>, n, written)
        \/ \E argsOk \in BOOLEAN :
              LoanCmd(m, argsOk, <<"V">>, "1", <<"X">>, "t1", "a")
        \/ \E argsOk \in BOOLEAN, target \in TargetArgs :
              Repay(m, argsOk, <<"V">>, "1", target)
        \/ \E argsOk \in BOOLEAN, target \in TargetArgs :
              Accrue(m, argsOk, <<"V">>, "1", target)
        \/ BusyReject(m)
        \/ \E written \in BOOLEAN : GatedReplyDelivered(m, written)
        \/ GatedReplyFailed(m)
        \/ exportDbCommand(m)
        \/ ReplyDelivered(m)
        \/ ReplyFailed(m)

Spec == Init /\ [][Next]_vars

\* Every reply a gated command awaits is eventually delivered or rejected:
\* the promise of channel.send settles.
SpecLive ==
    /\ Init
    /\ [][Next]_vars
    /\ \A m \in Msgs :
          WF_vars((\E written \in BOOLEAN : GatedReplyDelivered(m, written))
                  \/ GatedReplyFailed(m))

---------------------------------------------------------------------------
(* Properties of the ledger *)

RECURSIVE LogSum(_)
LogSum(log) ==
    IF log = <<>> THEN 0
    ELSE LET e == log[Len(log)]
         IN  LogSum(SubSeq(log, 1, Len(log) - 1))
             + (IF e.type = "deposit" THEN e.amount
                ELSE IF e.type = "withdraw" THEN 0 - e.amount ELSE 0)

LogOf(accountName) ==
    IF accountName \in DOMAIN transactions THEN transactions[accountName] ELSE <<>>

\* C1: no stored account balance is a negative number, whatever deposits
\* and withdrawals (accepted or rejected) were processed.
C1_NoNegativeBalance ==
    \A k \in DOMAIN balances : ~(IsNum(balances[k]) /\ balances[k].v < 0)

\* C1 witness: an account was emptied by an accepted withdrawal and a
\* further withdrawal from it is being rejected.
C1_Witness ==
    \E k \in DOMAIN balances :
        /\ balances[k] = Zero
        /\ \E i \in 1..Len(LogOf(k)) :
              LogOf(k)[i].type = "withdraw" /\ LogOf(k)[i].amount > 0
        /\ reply["m1"].kind = "Insufficient"
        /\ reply["m1"].account = k

\* C2: for every account, the stored balance is the sum of its deposit
\* entries minus the sum of its withdraw entries.
C2_BalanceIsLogSum ==
    \A k \in DOMAIN balances \cup DOMAIN transactions :
        GetProp(balances, k) = Num(LogSum(LogOf(k)))

\* the balance the claim speaks of: 0 for an account that was never stored
StoredBalance(accountName) ==
    IF accountName \in DOMAIN balances /\ IsNum(balances[accountName])
    THEN balances[accountName].v ELSE 0

\* C3: a withdraw command whose parsed amount exceeds the account's balance
\* (0 for an unknown account) changes no balance, creates no account and
\* appends no entry.
C3_OverdraftRejected ==
    [][\A a \in {<<"V">>, <<"X">>, Constructor}, n \in AmountArgs :
          (/\ Withdraw("m1", TRUE, a, n, TRUE)
           /\ parseAmount(n) # Null
           /\ parseAmount(n).v > StoredBalance(a))
          => UNCHANGED <<balances, transactions>>]_vars

---------------------------------------------------------------------------
(* Properties of the loan engine *)

LoanLog(k) == IF k \in DOMAIN loanTransactions THEN loanTransactions[k] ELSE <<>>

\* the open loans whose borrower and lender match b and l, as the
\* specification defines the match (case-insensitive, trimmed)
MatchingOpenLoans(b, l) ==
    {k \in DOMAIN loans :
        /\ loans[k].status # "resolved"
        /\ LowerString(Trim(loans[k].borrowerName)) = LowerString(Trim(b))
        /\ LowerString(Trim(loans[k].lenderName)) = LowerString(Trim(l))}

\* C4: with exactly one open loan matching (B, L), repay(B, amount, L) acts
\* on that loan: the balance becomes max(0, balance - amount), a repay
\* entry is appended and, when the balance reaches 0, the loan is resolved
\* with a resolve entry of amount 0 after the repay entry.
C4_RepayByLenderName ==
    [][\A b \in BorrowerNames, l \in LenderArgs, n \in LoanAmountArgs :
          \A k \in MatchingOpenLoans(b, l) :
              (/\ MatchingOpenLoans(b, l) = {k}
               /\ parseAmount(n) # Null
               /\ Repay("m1", TRUE, b, n, l))
              => LET newBal == Max(0, loans[k].balance - parseAmount(n).v)
                     repaid == Append(LoanLog(k),
                                      Entry("repay", parseAmount(n).v, ""))
                 IN  /\ loans'[k].balance = newBal
                     /\ loans'[k].status = IF newBal = 0 THEN "resolved" ELSE "open"
                     /\ loanTransactions'[k] =
                            IF newBal = 0
                            THEN Append(repaid, Entry("resolve", 0, "Loan resolved"))
                            ELSE repaid]_vars

\* C5: with two or more open loans matching (B, L), repay and accrue by
\* lender name are rejected as ambiguous, the rejection lists the id of
\* every matching loan, and no loan or loan log changes.
C5_AmbiguousRejected ==
    [][\A b \in BorrowerNames, l \in LenderArgs, n \in LoanAmountArgs :
          (/\ Cardinality(MatchingOpenLoans(b, l)) >= 2
           /\ parseAmount(n) # Null
           /\ Repay("m1", TRUE, b, n, l) \/ Accrue("m1", TRUE, b, n, l))
          => /\ reply'["m1"].kind = "Ambiguous"
             /\ reply'["m1"].loanIds = {Str(k) : k \in MatchingOpenLoans(b, l)}
             /\ UNCHANGED <<loans, loanTransactions>>]_vars

\* C6: no loan balance is negative; an accepted repay of more than the
\* outstanding balance leaves balance 0 and logs the requested amount.
C6_RepayClamps ==
    [][/\ \A k \in DOMAIN loans' : loans'[k].balance >= 0
       /\ \A b \in BorrowerNames, n \in LoanAmountArgs, k \in DOMAIN loans :
             (/\ Repay("m1", TRUE, b, n, k)
              /\ reply'["m1"].kind = "Repaid"
              /\ parseAmount(n).v > loans[k].balance)
             => /\ loans'[k].balance = 0
                /\ Len(loanTransactions'[k]) = Len(loanTransactions[k]) + 2
                /\ loanTransactions'[k][Len(loanTransactions[k]) + 1] =
                       Entry("repay", parseAmount(n).v, "")]_vars

\* C6 witness: a loan of 1 was repaid with 2: balance 0, repay entry of 2.
C6_Witness ==
    \E k \in DOMAIN loans :
        /\ loans[k].balance = 0
        /\ Len(LoanLog(k)) = 3
        /\ LoanLog(k)[1] = Entry("loan", 1, "Loan created")
        /\ LoanLog(k)[2] = Entry("repay", 2, "")

\* C7: repay and accrue addressed by loan id to a resolved loan are
\* rejected as already resolved and change neither the loan nor its log.
C7_ResolvedRejected ==
    [][\A b \in BorrowerNames, n \in LoanAmountArgs, k \in DOMAIN loans :
          (/\ loans[k].status = "resolved"
           /\ parseAmount(n) # Null
           /\ Repay("m1", TRUE, b, n, k) \/ Accrue("m1", TRUE, b, n, k))
          => /\ reply'["m1"].kind = "AlreadyResolved"
             /\ UNCHANGED <<loans, loanTransactions>>]_vars

\* C7 witness: a command on a resolved loan is being answered.
C7_Witness ==
    /\ reply["m1"].kind = "AlreadyResolved"
    /\ \E k \in DOMAIN loans : loans[k].status = "resolved"

\* C8: a loan that is resolved stays resolved, with balance 0, whatever
\* command follows.
C8_ResolutionIrreversible ==
    [][\A k \in DOMAIN loans :
          loans[k].status = "resolved"
          => /\ k \in DOMAIN loans'
             /\ loans'[k].status = "resolved"
             /\ loans'[k].balance = 0]_vars

\* C9: a loan command that creates a loan stores it under an id that keys
\* no existing loan record and no existing loan log.
C9_FreshLoanId ==
    [][\A b \in LoanBorrowers, n \in LoanAmountArgs, l \in LenderArgs,
         now \in Times, random \in RandomSuffixes :
          (/\ parseAmount(n) # Null
           /\ LoanCmd("m1", TRUE, b, n, l, now, random))
          => generateLoanId(now, random).s
                 \notin (DOMAIN loans \cup DOMAIN loanTransactions)]_vars

\* C21: an accepted repay by loan id on an open loan sets the balance to
\* max(0, balance - amount) and appends one repay entry; when the new
\* balance is 0 the loan becomes resolved and one resolve entry of amount 0
\* follows the repay entry at once; otherwise the loan stays open and
\* nothing else is appended.
C21_RepayByLoanId ==
    [][\A b \in BorrowerNames, n \in LoanAmountArgs, k \in DOMAIN loans :
          (/\ loans[k].status = "open"
           /\ Repay("m1", TRUE, b, n, k)
           /\ reply'["m1"].kind = "Repaid")
          => LET amount == parseAmount(n).v
                 newBal == IF loans[k].balance - amount > 0
                           THEN loans[k].balance - amount ELSE 0
                 repaid == Append(LoanLog(k), Entry("repay", amount, ""))
             IN  /\ loans'[k].balance = newBal
                 /\ loans'[k].status = "resolved" <=> newBal = 0
                 /\ loans'[k].status = "open" <=> newBal > 0
                 /\ loanTransactions'[k] =
                        IF newBal = 0
                        THEN Append(repaid, Entry("resolve", 0, "Loan resolved"))
                        ELSE repaid]_vars

\* C21 witness: a repay that left a positive balance is being confirmed:
\* the loan is open and its log ends with the repay entry.
C21_Witness ==
    /\ reply["m1"].kind = "Repaid"
    /\ ~reply["m1"].resolved
    /\ \E k \in DOMAIN loans :
          /\ loans[k].status = "open"
          /\ loans[k].balance > 0
          /\ LoanLog(k)[Len(LoanLog(k))].type = "repay"
          /\ LoanLog(k)[Len(LoanLog(k))].amount > 0

\* C24: a loan is resolved exactly when its balance is 0: every open loan
\* has a balance above 0.
C24_ResolvedIffZero ==
    \A k \in DOMAIN loans : loans[k].status = "resolved" <=> loans[k].balance = 0

---------------------------------------------------------------------------
(* Properties of the gate *)

\* the commands between acquiring the gate and releasing it
Holders == {m \in Msgs : pc[m] = "gated"}

\* C10: at most one mutating command holds the gate at any time, and the
\* flag is cleared only by the command that holds it.
C10_GateMutualExclusion ==
    [][/\ Cardinality({m \in Msgs : pc'[m] = "gated"}) <= 1
       /\ (busy /\ ~busy') => \A m \in Holders : pc'[m] # "gated"]_vars

C12_GuaranteedRelease ==
    /\ [](Holders = {} => ~busy)
    /\ [][\A m \in Msgs : (pc[m] = "gated" /\ pc'[m] # "gated") => ~busy']_vars
    /\ \A m \in Msgs : (pc[m] = "gated") ~> (pc[m] # "gated")

\* C12 witness: a loan command went through the gate and left it without a
\* snapshot (its reply failed, or the write did): the gate is free again.
C12_Witness ==
    /\ Holders = {}
    /\ ~busy
    /\ DOMAIN loans # {}
    /\ disk = NoFile

\* the replies by which a gated command turns a request down
RejectionKinds ==
    {"Usage", "InvalidAmount", "Insufficient", "LenderEmpty", "NoLoanFound",
     "Ambiguous", "LoanNotFound", "AlreadyResolved", "BorrowerMismatch"}

\* C13: a gated command that ended in a rejection leaves the gate without
\* a snapshot write.
C13_SaveOnlyOnSuccess ==
    [][\A m \in Msgs :
          (/\ pc[m] = "gated"
           /\ reply[m].kind \in RejectionKinds
           /\ pc'[m] # "gated")
          => lastWrite' = "none"]_vars

\* the replies that confirm a change a loan command made in memory
SuccessKinds == {"LoanCreated", "Repaid", "Accrued"}

\* C14: a gated command that changed the in-memory state does not leave the
\* gate without a snapshot write attempt: neither the step in which a loan
\* command leaves the gate after its change, nor the single step in which
\* a deposit or withdrawal changes the ledger and releases the gate.
C14_PersistBeforeRelease ==
    [][/\ \A m \in Msgs :
             (/\ pc[m] = "gated"
              /\ reply[m].kind \in SuccessKinds
              /\ pc'[m] # "gated")
             => lastWrite' # "none"
       /\ (pc' = pc /\ <<balances, transactions>>' # <<balances, transactions>>)
             => lastWrite' # "none"]_vars

---------------------------------------------------------------------------
(* Properties of the snapshot *)

C16_LoadFallsBack ==
    ready =>
        /\ bankDataType = "object"
        /\ disk.t \in {"unreadable", "not json", "null", "number"}
              => /\ DOMAIN balances = {}
                 /\ DOMAIN transactions = {}
                 /\ DOMAIN profiles = {}
                 /\ DOMAIN loans = {}
                 /\ DOMAIN loanTransactions = {}
        /\ disk.t = "document"
              => /\ balances = (IF "balances" \in disk.keys THEN disk.balances
                        ELSE EmptyObject)
                 /\ transactions = (IF "transactions" \in disk.keys THEN disk.transactions
                        ELSE EmptyObject)
                 /\ profiles = (IF "profiles" \in disk.keys THEN disk.profiles
                        ELSE EmptyObject)
                 /\ loans = (IF "loans" \in disk.keys THEN disk.loans
                        ELSE EmptyObject)
                 /\ loanTransactions = (IF "loanTransactions" \in disk.keys THEN disk.loanTransactions
                        ELSE EmptyObject)

---------------------------------------------------------------------------
(* Properties of the views *)

\* the accounts with a balance above 0
PositiveAccounts ==
    {k \in DOMAIN balances : IsNum(balances[k]) /\ balances[k].v > 0}

\* the wealth rows of the leaderboard message being sent by m
GpRows(msg) == IF msg.kind = "Leaderboard" THEN msg.gp ELSE <<>>

\* C17: the wealth board of !leaderboard lists accounts with a balance
\* above 0 only, each once with its balance, in descending order of
\* balance, and holds the `limit` largest of them (all of them when there
\* are fewer).
C17_TopBalances ==
    [][\A countArg \in {"", "1", "2"}, balanceKeys \in KeyOrders(balances),
         loanKeys \in KeyOrders(loans) :
          leaderboardCommand("m1", countArg, balanceKeys, loanKeys)
          => LET r == GpRows(reply'["m1"])
                 limit == LeaderboardCount(countArg)
                 listed == {r[i][1] : i \in 1..Len(r)}
             IN  /\ Len(r) = IF Cardinality(PositiveAccounts) < limit
                             THEN Cardinality(PositiveAccounts) ELSE limit
                 /\ \A i \in 1..Len(r) :
                       /\ r[i][1] \in PositiveAccounts
                       /\ r[i][2] = balances[r[i][1]].v
                 /\ \A i, j \in 1..Len(r) :
                       i < j => r[i][1] # r[j][1] /\ r[i][2] >= r[j][2]
                 /\ \A k \in PositiveAccounts \ listed, i \in 1..Len(r) :
                       balances[k].v <= r[i][2]]_vars

\* C17 witness: a board of one row is being sent while two accounts hold
\* different positive balances and a third holds 0.
C17_Witness ==
    /\ reply["m1"].kind = "Leaderboard"
    /\ Len(reply["m1"].gp) = 1
    /\ \E k \in DOMAIN balances : balances[k] = Zero
    /\ \E k \in PositiveAccounts :
          /\ k # reply["m1"].gp[1][1]
          /\ balances[k].v < reply["m1"].gp[1][2]

\* the sum of the balances of the loans ks
RECURSIVE SumBalances(_)
SumBalances(ks) ==
    IF ks = {} THEN 0
    ELSE LET k == CHOOSE x \in ks : TRUE
         IN  loans[k].balance + SumBalances(ks \ {k})

\* what a stored borrower name owes on its non-resolved loans
TotalDebt(b) ==
    SumBalances({k \in DOMAIN loans :
                    loans[k].status # "resolved" /\ loans[k].borrowerName = b})

Debtors == {b \in {loans[k].borrowerName : k \in DOMAIN loans} : TotalDebt(b) > 0}

\* the debt rows of the leaderboard message being sent
DebtRows(msg) == IF msg.kind = "Leaderboard" THEN msg.debt ELSE <<>>

\* C18: the debt board of !leaderboard has one row per stored borrower
\* name with a positive total, carrying that name and the total of the
\* borrower's non-resolved loans, in descending order of total, and holds
\* the `limit` largest totals.
C18_TopDebtors ==
    [][\A countArg \in {"", "1", "2"}, balanceKeys \in KeyOrders(balances),
         loanKeys \in KeyOrders(loans) :
          leaderboardCommand("m1", countArg, balanceKeys, loanKeys)
          => LET r == DebtRows(reply'["m1"])
                 limit == LeaderboardCount(countArg)
             IN  /\ Len(r) = IF Cardinality(Debtors) < limit
                             THEN Cardinality(Debtors) ELSE limit
                 /\ \A i \in 1..Len(r) :
                       \E b \in Debtors :
                           r[i].name = Str(b) /\ r[i].debt = TotalDebt(b)
                 /\ \A i, j \in 1..Len(r) :
                       i < j => r[i].name # r[j].name /\ r[i].debt >= r[j].debt
                 /\ \A b \in Debtors, i \in 1..Len(r) :
                       (\A j \in 1..Len(r) : r[j].name # Str(b))
                           => TotalDebt(b) <= r[i].debt]_vars

\* the non-resolved loans with a positive balance whose lender is `name`,
\* compared without case and surrounding blanks
LoansOfLender(name) ==
    {k \in DOMAIN loans :
        /\ loans[k].status # "resolved"
        /\ loans[k].balance > 0
        /\ LowerString(Trim(loans[k].lenderName)) = LowerString(Trim(name))}

\* the rows of the !debt or !debtors message being sent
OpenLoanRows(msg) == IF msg.kind \in {"Debt", "Debtors"} THEN msg.openLoans ELSE <<>>

\* C20: however the lender is named (argument, mention, or the author by
\* default), !debtors lists exactly the non-resolved loans with a positive
\* balance whose lender name matches, each once with its borrower and
\* balance, in descending order of balance.
C20_LoansOfLender ==
    [][\A via \in Vias, targetName \in ViewNames, loanKeys \in KeyOrders(loans) :
          debtorsCommand("m1", via, <<"u1">>, targetName, loanKeys)
          => LET r == OpenLoanRows(reply'["m1"])
             IN  /\ {r[i].loanId : i \in 1..Len(r)} = LoansOfLender(targetName)
                 /\ Len(r) = Cardinality(LoansOfLender(targetName))
                 /\ \A i \in 1..Len(r) :
                       /\ r[i].borrowerName = loans[r[i].loanId].borrowerName
                       /\ r[i].balance = loans[r[i].loanId].balance
                 /\ \A i, j \in 1..Len(r) :
                       i < j => r[i].balance >= r[j].balance]_vars

---------------------------------------------------------------------------
(* Properties of amounts *)

\* C19: every entry of a bank transaction log, and every loan, repay and
\* accrue entry of a loan log, records an integer amount of at least 1.
C19_AmountsAtLeastOne ==
    /\ \A k \in DOMAIN transactions :
          \A i \in 1..Len(transactions[k]) : transactions[k][i].amount >= 1
    /\ \A k \in DOMAIN loanTransactions :
          \A i \in 1..Len(loanTransactions[k]) :
              loanTransactions[k][i].type \in {"loan", "repay", "accrue"}
                  => loanTransactions[k][i].amount >= 1

---------------------------------------------------------------------------
(* Properties of the logs *)

IsPrefix(s, t) == Len(s) <= Len(t) /\ SubSeq(t, 1, Len(s)) = s

\* C22: every step leaves every bank transaction log and every loan
\* transaction log as a prefix of what it becomes: entries are only added
\* at the end, in the order in which the commands ran.
C22_LogsAppendOnly ==
    [][/\ \A k \in DOMAIN transactions :
             /\ k \in DOMAIN transactions'
             /\ IsPrefix(transactions[k], transactions'[k])
       /\ \A k \in DOMAIN loanTransactions :
             /\ k \in DOMAIN loanTransactions'
             /\ IsPrefix(loanTransactions[k], loanTransactions'[k])]_vars

\* C22 witness: an account log and a loan log hold two entries each, the
\* later command's entry behind the earlier one's.
C22_Witness ==
    /\ \E k \in DOMAIN transactions :
          /\ Len(transactions[k]) = 2
          /\ transactions[k][1].type = "deposit"
          /\ transactions[k][2].type = "withdraw"
    /\ \E k \in DOMAIN loanTransactions :
          /\ Len(loanTransactions[k]) >= 2
          /\ loanTransactions[k][1].type = "loan"
          /\ loanTransactions[k][2].type = "accrue"

\* C23: a loan, repay or accrue command leaves every account balance and
\* every bank transaction log as they are, and a deposit or withdraw
\* command leaves every loan and every loan transaction log as they are.
C23_LedgerAndLoansIndependent ==
    [][\A m \in Msgs, argsOk \in BOOLEAN :
          /\ ((\/ LoanCmd(m, argsOk, <<"V">>, "1", <<"X">>, "t1", "a")
               \/ \E target \in TargetArgs :
                     \/ Repay(m, argsOk, <<"V">>, "1", target)
                     \/ Accrue(m, argsOk, <<"V">>, "1", target))
              => UNCHANGED <<balances, transactions>>)
          /\ ((\E n \in {"1", "2"}, written \in BOOLEAN :
                  \/ Deposit(m, argsOk, <<"V">>, n, written)
                  \/ Withdraw(m, argsOk, <<"V">>, n, written))
              => UNCHANGED <<loans, loanTransactions>>)]_vars

\* C23 witness: an account holds a balance and has a log while a loan has
\* been created and repaid in full.
C23_Witness ==
    /\ \E k \in DOMAIN balances : IsNum(balances[k]) /\ balances[k].v > 0
    /\ \E k \in DOMAIN loans :
          /\ loans[k].status = "resolved"
          /\ \E i \in 1..Len(LoanLog(k)) : LoanLog(k)[i].type = "repay"
    /\ \E k \in DOMAIN transactions : transactions[k] # <<>>

\* C25: a step that writes the snapshot while a command is inside the gate
\* is that command's own step out of the gate, so the file never holds a
\* gated command's change before that command has saved it.
C25_OnlyHolderWrites ==
    [][lastWrite' = "written" => \A h \in Holders : pc'[h] # "gated"]_vars

====
